---- MODULE Spec2Model ----
(***************************************************************************)
(* Wallet login flow of code423n4.com: the UserProvider context            *)
(* (hooks/UserContext: currentUser, getUserInfo, connectWallet, logUserOut, *)
(* the checkForUser effect, the account-change listener) and the Login      *)
(* component's handleLogin.                                                 *)
(*                                                                          *)
(* Every asynchronous function is cut at its awaits on I/O (authenticate,   *)
(* Moralis.User.current, Moralis.Cloud.run, user.save, fetch, Moralis.link, *)
(* logout): one action is the code that runs between two such awaits,       *)
(* including the synchronous continuation in the caller (a rejected promise *)
(* runs the caller's catch in the same step).  The wallet SDK and the two   *)
(* backend endpoints are the environment: their answers are chosen with \E. *)
(***************************************************************************)
EXTENDS Naturals, Sequences, FiniteSets, TLC

VARIABLES
    currentUser,                      \* useState(DEFAULT_STATE): the Session
    accountChangeListenerInitialized, \* useState(false): the one-shot latch
    listeners,                        \* handlers given to Moralis.onAccountChanged
    isAuthenticated,                  \* useMoralis().isAuthenticated
    sdkUser,                          \* Moralis.User.current()
    sdkLogout,                        \* progress of an invoked SDK logout()
    effectPending,                    \* the checkForUser effect is due to run
    pc,                               \* position of handleLogin / checkForUser
    user,                             \* user.attributes as each getUserInfo read them
    cwPending,                        \* connectWallet's handlesPendingConfirmation
    registeredUser,                   \* getUserInfo's registeredUser, per caller
    loginToast,                       \* what the login toast (id) renders
    modal,                            \* the showModal() prompt
    linking,                          \* linkAccount awaiting Moralis.link
    \* What the last step did (observations; nothing reads them back):
    invoked,                          \* the calls it made
    thrown,                           \* what getUserInfo / connectWallet threw in it
    attempt,                          \* how handleLogin ended in it ("none": it did not)
    toasted,                          \* the toast.error it raised
    navigated,                        \* the navigate() target it went to
    answer,                           \* the backend answer getUserInfo resumed with
    \* History, kept only by SpecRecorded:
    endedBy                           \* the call that invalidated the SDK session

vars == <<currentUser, accountChangeListenerInitialized, listeners,
          isAuthenticated, sdkUser, sdkLogout, effectPending, pc, user,
          cwPending, registeredUser, loginToast, modal, linking,
          invoked, thrown, attempt, toasted, navigated, answer, endedBy>>

(***************************************************************************)
(* Bounds of the model.                                                    *)
(***************************************************************************)
\* Longest team list the team endpoint answers with.
MaxTeams == 1
\* Most runs of the provider's listener effect in one page lifetime.
MaxEffectRuns == 2

Handles == {"alice"}

(***************************************************************************)
(* Values.                                                                 *)
(***************************************************************************)
\* enum UserLoginError
RegistrationPending == "registration pending"
ConnectionPending == "connect wallet pending"
Unknown == ""
\* A rejection that is no UserLoginError (fetch / SDK raising), and no error.
OtherError == "TypeError"
NoError == "none"

\* JS null of img and link.
NullImg == <<"null">>
NullLink == "null"
\* A stored relative image path, "./x.png", by characters where slice(2) cuts.
StoredImage == <<".", "/", "x.png">>
NoImage == <<>>
RawBase == <<"https://raw.githubusercontent.com/code-423n4/code423n4.com/main/_data/handles/">>

DEFAULT_STATE ==
    [address |-> "", username |-> "", discordUsername |-> "",
     gitHubUsername |-> "", emailAddress |-> "", moralisId |-> "",
     teams |-> <<>>, isLoggedIn |-> FALSE, img |-> NullImg, link |-> NullLink]

\* user.attributes as getUserInfo destructures them (lines 142-148).
NoAttributes ==
    [c4Username |-> "", ethAddress |-> "", discordUsername |-> "",
     gitHubUsername |-> "", emailAddress |-> ""]
AttributesOf(h) ==
    [c4Username |-> h, ethAddress |-> "0xA", discordUsername |-> "d#1",
     gitHubUsername |-> "gh", emailAddress |-> "e@x"]

\* Moralis.User.current() === null.
NoUser ==
    [present |-> FALSE, handlesPendingConfirmation |-> <<>>, accounts |-> FALSE,
     attributes |-> NoAttributes]

\* The identities the wallet SDK can hold: with or without a handle
\* (c4Username), with or without a handlesPendingConfirmation marker (<<>> is
\* undefined; the code never stores an empty list), with accounts, and one
\* without accounts.
Identities ==
    {[present |-> TRUE, handlesPendingConfirmation |-> hp, accounts |-> TRUE,
      attributes |-> AttributesOf(h)] :
        h \in Handles \cup {""}, hp \in {<<>>} \cup {<<x>> : x \in Handles}}
    \cup
    {[present |-> TRUE, handlesPendingConfirmation |-> <<>>, accounts |-> FALSE,
      attributes |-> AttributesOf(h)] : h \in Handles}

Procs == {"login", "restore"}

NoRecord == [moralisId |-> "", image |-> NoImage, link |-> ""]

\* Answers of GET /get-user: a rejected fetch, 404 {error: "User not found"},
\* another non-ok status, 200 null, 200 with a record.
ProfileResponses ==
    {[raises |-> TRUE, ok |-> FALSE, error |-> "", isNull |-> TRUE, body |-> NoRecord],
     [raises |-> FALSE, ok |-> FALSE, error |-> "User not found", isNull |-> TRUE, body |-> NoRecord],
     [raises |-> FALSE, ok |-> FALSE, error |-> "Internal Server Error", isNull |-> TRUE, body |-> NoRecord],
     [raises |-> FALSE, ok |-> TRUE, error |-> "", isNull |-> TRUE, body |-> NoRecord]}
    \cup
    {[raises |-> FALSE, ok |-> TRUE, error |-> "", isNull |-> FALSE, body |-> b] :
        b \in {[moralisId |-> "", image |-> NoImage, link |-> ""],
               [moralisId |-> "", image |-> StoredImage, link |-> "l1"],
               [moralisId |-> "m1", image |-> NoImage, link |-> ""],
               [moralisId |-> "m1", image |-> StoredImage, link |-> "l1"]}}

\* Answers of the avatar probe and of GET /get-team.
ImageResponses == {"ok", "notOk", "raises"}
TeamLists == {[i \in 1..n |-> [username |-> "bob"]] : n \in 0..MaxTeams}
ErrorBody == <<[error |-> "Internal Server Error"]>>
TeamsResponses ==
    {[raises |-> TRUE, status |-> 0, body |-> <<>>],
     [raises |-> FALSE, status |-> 500, body |-> ErrorBody],
     [raises |-> FALSE, status |-> 404, body |-> ErrorBody]}
    \cup {[raises |-> FALSE, status |-> 200, body |-> t] : t \in TeamLists}

NoModal == [open |-> FALSE, account |-> "", username |-> "",
            primary |-> "none", secondary |-> "none"]
NoLink == [active |-> FALSE, account |-> "", username |-> ""]
Accounts == {"0xB"}
NoAnswer == [at |-> "none", r |-> "none"]


(***************************************************************************)
(* Pure parts of the code.                                                 *)
(***************************************************************************)
Last(s) == s[Len(s)]

\* A variant of ProfileError that lets a record without moralisId through.
ProfileErrorNoIdCheck(resp) ==
    IF resp.raises THEN OtherError
    ELSE IF ~resp.ok
         THEN IF resp.error = "User not found" THEN RegistrationPending ELSE Unknown
    ELSE IF resp.isNull THEN RegistrationPending
    ELSE NoError

\* A variant of ProfileError that matches the 404 body against another text.
ProfileErrorWrongText(resp) ==
    IF resp.raises THEN OtherError
    ELSE IF ~resp.ok
         THEN IF resp.error = "Not found" THEN RegistrationPending ELSE Unknown
    ELSE IF resp.isNull THEN RegistrationPending
    ELSE IF resp.body.moralisId = "" THEN ConnectionPending
    ELSE NoError

\* A variant of ProfileError that reports a record without moralisId as a
\* missing record.
ProfileErrorSameError(resp) ==
    IF resp.raises THEN OtherError
    ELSE IF ~resp.ok
         THEN IF resp.error = "User not found" THEN RegistrationPending ELSE Unknown
    ELSE IF resp.isNull THEN RegistrationPending
    ELSE IF resp.body.moralisId = "" THEN RegistrationPending
    ELSE NoError

\* getUserInfo, lines 149-167: what the answer of /get-user makes it throw.
ProfileError(resp) ==
    IF resp.raises THEN OtherError
    ELSE IF ~resp.ok
         THEN IF resp.error = "User not found" THEN RegistrationPending ELSE Unknown
    ELSE IF resp.isNull THEN RegistrationPending
    ELSE IF resp.body.moralisId = "" THEN ConnectionPending
    ELSE NoError

\* A variant of ResolveImage that probes the stored path as it is.
ResolveImageNoSlice(image, imgResp) ==
    IF imgResp = "ok" THEN RawBase \o image ELSE image

\* getUserInfo, lines 169-178: image.slice(2), the probe, imgResponse.url.
ResolveImage(image, imgResp) ==
    IF imgResp = "ok" THEN RawBase \o SubSeq(image, 3, Len(image)) ELSE image

\* A variant of TeamsOf that reads the body whatever the status.
TeamsOfAnyStatus(resp) == resp.body

\* getUserInfo, lines 187-190.
TeamsOf(resp) == IF resp.status = 200 THEN resp.body ELSE <<>>

\* getUserInfo, lines 179-181 and 192-203: the value given to setCurrentUser.
AssembleSession(u, reg, teams) ==
    [username |-> u.c4Username,
     moralisId |-> reg.moralisId,
     address |-> u.ethAddress,
     discordUsername |-> u.discordUsername,
     gitHubUsername |-> u.gitHubUsername,
     emailAddress |-> u.emailAddress,
     link |-> IF reg.link = "" THEN NullLink ELSE reg.link,
     img |-> IF reg.image = NoImage THEN NullImg ELSE reg.image,
     teams |-> teams,
     isLoggedIn |-> TRUE]

GuiPcs == {"gui_profile", "gui_image", "gui_teams"}

GuiResponses(at) ==
    CASE at = "gui_profile" -> ProfileResponses
      [] at = "gui_image" -> ImageResponses
      [] at = "gui_teams" -> TeamsResponses

\* One segment of getUserInfo, resumed at `at` with the answer r: the error it
\* throws, its registeredUser, where it awaits next ("return" after
\* setCurrentUser) and the Session it sets.
GuiStep(at, u, reg, r) ==
    CASE at = "gui_profile" ->
           [err |-> ProfileError(r),
            reg |-> IF ProfileError(r) = NoError THEN r.body ELSE reg,
            next |-> IF ProfileError(r) # NoError THEN "throw"
                     ELSE IF r.body.image # NoImage THEN "gui_image"
                     ELSE "gui_teams",
            session |-> DEFAULT_STATE]
      [] at = "gui_image" ->
           [err |-> IF r = "raises" THEN OtherError ELSE NoError,
            reg |-> IF r = "raises" THEN reg
                    ELSE [reg EXCEPT !.image = ResolveImage(reg.image, r)],
            next |-> IF r = "raises" THEN "throw" ELSE "gui_teams",
            session |-> DEFAULT_STATE]
      [] at = "gui_teams" ->
           [err |-> IF r.raises THEN OtherError ELSE NoError,
            reg |-> reg,
            next |-> IF r.raises THEN "throw" ELSE "return",
            session |-> AssembleSession(u, reg, TeamsOf(r))]

\* A variant of LogUserOutState that forgets to reset the Session.
LogUserOutStateKeeps(cur) == cur

\* logUserOut, line 243: setCurrentUser(DEFAULT_STATE).
LogUserOutState(cur) == DEFAULT_STATE

\* useMoralis().logout(), invoked at lines 74, 89, 99, 108, 129, 133, 242: the
\* SDK starts logging out unless it already is.
LogoutInvoked(phase) == IF phase = "idle" THEN "requested" ELSE phase

\* A variant of CatchToasts without the closing generic update.
CatchToastsNoGeneric(err) ==
    IF err = RegistrationPending THEN <<"registrationPending">>
    ELSE IF err = ConnectionPending THEN <<"pendingReview">>
    ELSE <<>>

\* handleLogin's catch, lines 69-102: the toast.update calls it makes, in order.
CatchToasts(err) ==
    IF err = RegistrationPending THEN <<"registrationPending">>
    ELSE IF err = ConnectionPending THEN <<"pendingReview", "generic">>
    ELSE <<"generic">>



(***************************************************************************)
(* Initial state: the provider has just been constructed.  The wallet SDK  *)
(* may hold an identity persisted by an earlier page load.                  *)
(***************************************************************************)
InitProgram ==
    /\ currentUser = DEFAULT_STATE
    /\ accountChangeListenerInitialized = FALSE
    /\ listeners = 0
    /\ sdkUser \in Identities \cup {NoUser}
    /\ isAuthenticated = sdkUser.present
    /\ sdkLogout = "idle"
    /\ effectPending = TRUE
    /\ pc = [p \in Procs |-> "idle"]
    /\ user = [p \in Procs |-> NoAttributes]
    /\ cwPending = FALSE
    /\ registeredUser = [p \in Procs |-> NoRecord]
    /\ loginToast = "none"
    /\ modal = NoModal
    /\ linking = NoLink
    /\ invoked = {}
    /\ thrown = NoError
    /\ attempt = "none"
    /\ toasted = "none"
    /\ navigated = "none"
    /\ answer = NoAnswer

Init == InitProgram /\ endedBy = "unrecorded"

providerVars == <<accountChangeListenerInitialized, listeners>>
dialogVars == <<modal, linking>>
sdkVars == <<isAuthenticated, sdkUser, effectPending>>
loginLocals == <<cwPending, loginToast>>
procLocals == <<user, registeredUser>>

\* The call that invalidated the SDK session, after a step making `calls`:
\* logUserOut (line 242) once it ran, a direct logout() (lines 74, 89, 99,
\* 108, 129, 133) otherwise; a new authenticate starts afresh.
EndedBy(calls) ==
    IF endedBy = "unrecorded" THEN endedBy
    ELSE IF "logUserOut" \in calls THEN "logUserOut"
    ELSE IF "connectWallet" \in calls THEN "none"
    ELSE IF "logout" \in calls /\ endedBy = "none" THEN "direct"
    ELSE endedBy

\* What the step did, for the properties to read.
Observe(calls, err, ended, toast, nav) ==
    /\ invoked' = calls
    /\ thrown' = err
    /\ attempt' = ended
    /\ toasted' = toast
    /\ navigated' = nav
    /\ endedBy' = EndedBy(calls)

\* The caller p is done: its locals go out of scope.
Returns(p) ==
    /\ pc' = [pc EXCEPT ![p] = "idle"]
    /\ user' = [user EXCEPT ![p] = NoAttributes]
    /\ registeredUser' = [registeredUser EXCEPT ![p] = NoRecord]

(***************************************************************************)
(* UserProvider: the listener effect, lines 78-139.  It is the first effect *)
(* of the provider, so it runs before checkForUser and any UI event.        *)
(***************************************************************************)
InitializeEventListeners ==
    /\ answer' = NoAnswer
    /\ ~accountChangeListenerInitialized
    /\ listeners' = listeners + 1
    /\ accountChangeListenerInitialized' = TRUE
    /\ Observe({"onAccountChanged"}, NoError, "none", "none", "none")
    /\ UNCHANGED <<currentUser, sdkVars, sdkLogout, pc, procLocals, loginLocals,
                   dialogVars>>

\* A variant of AccountChangedToast that takes a missing user for a user
\* without a handle.
AccountChangedToastNoUserCheck(u, getRaises) ==
    IF getRaises /\ u.present THEN "errorMessage"
    ELSE IF ~u.accounts /\ u.present THEN "disconnected"
    ELSE IF u.attributes.c4Username = "" /\ u.present THEN "registeredOnly"
    ELSE "none"

\* The account-change handler, lines 84-110 and 131-134: the toast.error it
\* raises for the current identity ("none": it opens the prompt instead).
AccountChangedToast(u, getRaises) ==
    IF ~u.present THEN "disconnected"
    ELSE IF getRaises THEN "errorMessage"
    ELSE IF ~u.accounts THEN "disconnected"
    ELSE IF u.attributes.c4Username = "" THEN "registeredOnly"
    ELSE "none"

\* A variant of PendingLinkRequest whose two buttons are exchanged.
PendingLinkRequestSwapped(account, username) ==
    [open |-> TRUE, account |-> account, username |-> username,
     primary |-> "logout", secondary |-> "linkAccount"]

\* The prompt given to showModal, lines 113-130: "Link address" calls
\* linkAccount(account, username), "Logout" calls logout.
PendingLinkRequest(account, username) ==
    [open |-> TRUE, account |-> account, username |-> username,
     primary |-> "linkAccount", secondary |-> "logout"]

\* The handler given to Moralis.onAccountChanged, lines 83-135.
AccountChanged ==
    /\ answer' = NoAnswer
    /\ listeners > 0
    /\ \E account \in Accounts, getRaises \in BOOLEAN :
        LET t == AccountChangedToast(sdkUser, getRaises) IN
        IF t # "none"
        THEN /\ sdkLogout' = LogoutInvoked(sdkLogout)
             /\ Observe({"accountChanged", "logout"}, NoError, "none", t, "none")
             /\ UNCHANGED <<modal>>
        ELSE /\ modal' = PendingLinkRequest(account,
                                             sdkUser.attributes.c4Username)
             /\ Observe({"accountChanged", "showModal"}, NoError, "none", "none", "none")
             /\ UNCHANGED <<sdkLogout>>
    /\ UNCHANGED <<currentUser, providerVars, sdkVars, pc, procLocals,
                   loginLocals, linking>>

\* A button of the prompt: the prompt closes and the button's action runs,
\* linkAccount (lines 64-66, up to await Moralis.link) or logout.
ModalButton(button, action) ==
    /\ answer' = NoAnswer
    /\ modal.open
    /\ modal' = NoModal
    /\ IF action = "linkAccount"
       THEN /\ ~linking.active
            /\ linking' = [active |-> TRUE, account |-> modal.account,
                           username |-> modal.username]
            /\ Observe({button, "link"}, NoError, "none", "none", "none")
            /\ UNCHANGED <<sdkLogout>>
       ELSE /\ sdkLogout' = LogoutInvoked(sdkLogout)
            /\ Observe({button, "logout"}, NoError, "none", "none", "none")
            /\ UNCHANGED <<linking>>
    /\ UNCHANGED <<currentUser, providerVars, sdkVars, pc, procLocals,
                   loginLocals>>

\* primaryButtonAction, lines 127-128.
ModalLinkAddress == ModalButton("primaryButton", modal.primary)

\* linkAccount, lines 64-76, resumed by Moralis.link.
LinkResolved ==
    /\ answer' = NoAnswer
    /\ linking.active
    /\ \E r \in {"ok", "alreadyUsed", "otherError"} :
        /\ sdkUser' = IF r = "ok" /\ sdkUser.present
                      THEN [sdkUser EXCEPT !.accounts = TRUE] ELSE sdkUser
        /\ sdkLogout' = IF r = "ok" THEN sdkLogout ELSE LogoutInvoked(sdkLogout)
        /\ Observe(IF r = "ok" THEN {} ELSE {"logout"}, NoError, "none",
                   IF r = "alreadyUsed" THEN "alreadyLinked" ELSE "none", "none")
    /\ linking' = NoLink
    /\ UNCHANGED <<currentUser, providerVars, isAuthenticated, effectPending, pc,
                   procLocals, loginLocals, modal>>

\* secondaryButtonAction, line 129.
ModalLogout == ModalButton("secondaryButton", modal.secondary)

(***************************************************************************)
(* The wallet SDK finishing a logout: Moralis.User.current() becomes null,  *)
(* then useMoralis reports isAuthenticated = false.                         *)
(***************************************************************************)
SdkLogoutClears ==
    /\ answer' = NoAnswer
    /\ sdkLogout = "requested"
    /\ sdkLogout' = "cleared"
    /\ sdkUser' = NoUser
    /\ Observe({}, NoError, "none", "none", "none")
    /\ UNCHANGED <<currentUser, providerVars, isAuthenticated, effectPending, pc,
                   procLocals, loginLocals, dialogVars>>

SdkLogoutDone ==
    /\ answer' = NoAnswer
    /\ sdkLogout = "cleared"
    /\ sdkLogout' = "idle"
    /\ isAuthenticated' = FALSE
    /\ effectPending' = (effectPending \/ isAuthenticated)
    /\ Observe({}, NoError, "none", "none", "none")
    /\ UNCHANGED <<currentUser, providerVars, sdkUser, pc, procLocals,
                   loginLocals, dialogVars>>

(***************************************************************************)
(* logUserOut, lines 241-244, called by a consumer of the context.         *)
(***************************************************************************)
LogUserOut ==
    /\ answer' = NoAnswer
    /\ accountChangeListenerInitialized
    /\ currentUser' = LogUserOutState(currentUser)
    /\ sdkLogout' = LogoutInvoked(sdkLogout)
    /\ Observe({"logUserOut", "logout"}, NoError, "none", "none", "none")
    /\ UNCHANGED <<providerVars, sdkVars, pc, procLocals, loginLocals,
                   dialogVars>>


(***************************************************************************)
(* Login.handleLogin, with connectWallet and getUserInfo as it calls them.  *)
(***************************************************************************)
\* Lines 17-25: the loading toast, then await authenticate({provider}).
HandleLogin ==
    /\ answer' = NoAnswer
    /\ accountChangeListenerInitialized
    /\ pc["login"] = "idle"
    /\ pc' = [pc EXCEPT !["login"] = "auth"]
    /\ loginToast' = "loading"
    /\ Observe({"authenticate"}, NoError, "none", "none", "none")
    /\ UNCHANGED <<currentUser, providerVars, sdkVars, sdkLogout, procLocals,
                   cwPending, dialogVars>>

\* handleLogin returns: the last toast.update, and connectWallet's locals gone.
LoginEnds(toast) ==
    /\ Returns("login")
    /\ loginToast' = toast
    /\ cwPending' = FALSE

\* A variant of CancelledCalls that logs out on cancellation.
CancelledCallsLogout == {"logUserOut", "logout"}

\* Lines 26-36: the calls handleLogin makes when authenticate gives undefined.
CancelledCalls == {}

\* Lines 26-36: authenticate resolved to undefined.
AuthCancelled ==
    /\ answer' = NoAnswer
    /\ pc["login"] = "auth"
    /\ LoginEnds("mustSign")
    /\ currentUser' = IF "logUserOut" \in CancelledCalls
                      THEN LogUserOutState(currentUser) ELSE currentUser
    /\ sdkLogout' = IF "logout" \in CancelledCalls
                    THEN LogoutInvoked(sdkLogout) ELSE sdkLogout
    /\ Observe(CancelledCalls, NoError, "cancelled", "none", "none")
    /\ UNCHANGED <<providerVars, sdkVars, dialogVars>>

\* A variant of AuthRaisedToast that shows the cancellation message.
AuthRaisedToastMustSign == "mustSign"

\* Lines 40-45: the toast.update of the catch around authenticate.
AuthRaisedToast == "generic"

\* Lines 37-47: authenticate raised.
AuthRaised ==
    /\ answer' = NoAnswer
    /\ pc["login"] = "auth"
    /\ LoginEnds(AuthRaisedToast)
    /\ currentUser' = LogUserOutState(currentUser)
    /\ sdkLogout' = LogoutInvoked(sdkLogout)
    /\ Observe({"logUserOut", "logout"}, NoError, "authRaised", "none", "none")
    /\ UNCHANGED <<providerVars, sdkVars, dialogVars>>

\* Lines 25, 49-50 and 207: authenticate gave an identity; connectWallet is
\* called and awaits Moralis.User.current().
AuthSucceeded ==
    /\ answer' = NoAnswer
    /\ pc["login"] = "auth"
    /\ \E id \in Identities : sdkUser' = id
    /\ isAuthenticated' = TRUE
    /\ effectPending' = TRUE
    /\ pc' = [pc EXCEPT !["login"] = "cw_current"]
    /\ Observe({"connectWallet"}, NoError, "none", "none", "none")
    /\ UNCHANGED <<currentUser, providerVars, sdkLogout, procLocals, loginLocals,
                   dialogVars>>

\* A variant of CatchLogsOut that leaves the Session on ConnectionPending.
CatchLogsOutNotPending(err) == err # ConnectionPending

\* handleLogin's catch, line 68: logUserOut() comes first, for every error.
CatchLogsOut(err) == TRUE

\* What the toast renders after the toast.update calls `updates`.
Shown(toast, updates) == IF updates = <<>> THEN toast ELSE Last(updates)

\* handleLogin's catch, lines 67-103, for what connectWallet threw.
LoginCatch(err) ==
    /\ LoginEnds(Shown(loginToast, CatchToasts(err)))
    /\ currentUser' = IF CatchLogsOut(err) THEN LogUserOutState(currentUser)
                      ELSE currentUser
    /\ sdkLogout' = IF CatchLogsOut(err) THEN LogoutInvoked(sdkLogout)
                    ELSE sdkLogout
    /\ Observe(IF CatchLogsOut(err) THEN {"logUserOut", "logout"} ELSE {},
               err, "failed", "none", "none")

\* A variant of LoginNotConnected in which connectWallet returns without
\* logUserOut.
LoginNotConnectedStays(nav) ==
    /\ LoginEnds("registerAsWarden")
    /\ UNCHANGED <<currentUser, sdkLogout>>
    /\ Observe({}, NoError, "notConnected", "none", nav)

\* connectWallet returned undefined after logUserOut (lines 209-210 or
\* 224-226); handleLogin's else branch, lines 59-66.
LoginNotConnected(nav) ==
    /\ LoginEnds("registerAsWarden")
    /\ currentUser' = LogUserOutState(currentUser)
    /\ sdkLogout' = LogoutInvoked(sdkLogout)
    /\ Observe({"logUserOut", "logout"}, NoError, "notConnected", "none", nav)

\* connectWallet returned "connected" (line 238); handleLogin lines 52-58.
LoginConnected(calls, nav) ==
    /\ LoginEnds("loggedIn")
    /\ Observe(calls, NoError, "connected", "none", nav)

\* connectWallet, lines 207-233, resumed with Moralis.User.current().
ConnectWalletCurrent ==
    /\ answer' = NoAnswer
    /\ pc["login"] = "cw_current"
    /\ IF ~sdkUser.present
       THEN LoginNotConnected("none")
       ELSE LET pending == sdkUser.handlesPendingConfirmation # <<>>
                username == sdkUser.attributes.c4Username
            IN  /\ cwPending' = pending
                /\ pc' = [pc EXCEPT !["login"] =
                            IF username = "" THEN "cw_findUser" ELSE "gui_profile"]
                /\ user' = [user EXCEPT !["login"] =
                              IF username = "" THEN NoAttributes
                              ELSE sdkUser.attributes]
                /\ Observe(IF username = "" THEN {"findUser"} ELSE {"getUserInfo"},
                           NoError, "none", "none",
                           IF pending THEN "confirm-account" ELSE "none")
                /\ UNCHANGED <<currentUser, sdkLogout, registeredUser, loginToast>>
    /\ UNCHANGED <<providerVars, sdkVars, dialogVars>>

\* connectWallet, lines 222-229, resumed by Moralis.Cloud.run("findUser").
ConnectWalletFindUser ==
    /\ pc["login"] = "cw_findUser"
    /\ \E r \in {"raises", "none"} \cup Handles :
        /\ answer' = [at |-> "cw_findUser", r |-> r]
        /\ IF r = "raises"
           THEN /\ LoginCatch(OtherError)
                /\ UNCHANGED sdkUser
           ELSE IF r = "none"
           THEN /\ LoginNotConnected("register")
                /\ UNCHANGED sdkUser
           ELSE /\ sdkUser' =
                    IF sdkUser.present
                    THEN [sdkUser EXCEPT !.handlesPendingConfirmation = <<r>>]
                    ELSE sdkUser
                /\ pc' = [pc EXCEPT !["login"] = "cw_save"]
                /\ Observe({"save"}, NoError, "none", "none", "none")
                /\ UNCHANGED <<currentUser, sdkLogout, procLocals, loginLocals>>
    /\ UNCHANGED <<providerVars, isAuthenticated, effectPending, dialogVars>>

\* connectWallet, lines 229-230 and 238, resumed by user.save().
ConnectWalletSaved ==
    /\ pc["login"] = "cw_save"
    /\ \E ok \in BOOLEAN :
        /\ answer' = [at |-> "cw_save", r |-> ok]
        /\ IF ok
           THEN /\ LoginConnected({"navigate"}, "confirm-account")
                /\ UNCHANGED <<currentUser, sdkLogout>>
           ELSE LoginCatch(OtherError)
    /\ UNCHANGED <<providerVars, sdkVars, dialogVars>>

\* getUserInfo, lines 149-203, called by connectWallet (line 233) and resumed
\* by one of its fetches; then lines 234-238 and handleLogin's lines 50-103.
LoginGetUserInfo ==
    /\ pc["login"] \in GuiPcs
    /\ \E r \in GuiResponses(pc["login"]) :
        /\ answer' = [at |-> pc["login"], r |-> r]
        /\ LET s == GuiStep(pc["login"], user["login"], registeredUser["login"], r) IN
            IF s.err # NoError
            THEN LoginCatch(s.err)
            ELSE IF s.next = "return"
            THEN /\ currentUser' = s.session
                 /\ LoginConnected({"setCurrentUser"}, "none")
                 /\ UNCHANGED <<sdkLogout>>
            ELSE /\ pc' = [pc EXCEPT !["login"] = s.next]
                 /\ registeredUser' = [registeredUser EXCEPT !["login"] = s.reg]
                 /\ Observe({"fetch"}, NoError, "none", "none", "none")
                 /\ UNCHANGED <<currentUser, sdkLogout, user, loginLocals>>
    /\ UNCHANGED <<providerVars, sdkVars, dialogVars>>

(***************************************************************************)
(* The checkForUser effect, lines 246-269.                                  *)
(***************************************************************************)
\* Lines 249-254: the effect runs.
CheckForUser ==
    /\ answer' = NoAnswer
    /\ accountChangeListenerInitialized
    /\ effectPending
    /\ pc["restore"] = "idle"
    /\ effectPending' = FALSE
    /\ IF ~isAuthenticated
       THEN /\ currentUser' = DEFAULT_STATE
            /\ Observe({"setCurrentUser"}, NoError, "none", "none", "none")
            /\ UNCHANGED pc
       ELSE /\ pc' = [pc EXCEPT !["restore"] = "ck_current"]
            /\ Observe({}, NoError, "none", "none", "none")
            /\ UNCHANGED currentUser
    /\ UNCHANGED <<providerVars, isAuthenticated, sdkUser, sdkLogout, procLocals,
                   loginLocals, dialogVars>>

\* Lines 254-262, resumed with Moralis.User.current().
CheckForUserCurrent ==
    /\ answer' = NoAnswer
    /\ pc["restore"] = "ck_current"
    /\ IF ~sdkUser.present
       THEN /\ currentUser' = LogUserOutState(currentUser)
            /\ sdkLogout' = LogoutInvoked(sdkLogout)
            /\ Observe({"logUserOut", "logout"}, NoError, "none", "none", "none")
            /\ Returns("restore")
       ELSE IF sdkUser.attributes.c4Username # ""
       THEN /\ pc' = [pc EXCEPT !["restore"] = "gui_profile"]
            /\ user' = [user EXCEPT !["restore"] = sdkUser.attributes]
            /\ Observe({"getUserInfo"}, NoError, "none", "none", "none")
            /\ UNCHANGED <<currentUser, sdkLogout, registeredUser>>
       ELSE /\ Returns("restore")
            /\ Observe({}, NoError, "none", "none", "none")
            /\ UNCHANGED <<currentUser, sdkLogout>>
    /\ UNCHANGED <<providerVars, sdkVars, loginLocals, dialogVars>>

\* getUserInfo called at line 260 and resumed by one of its fetches; its
\* rejection is caught at lines 263-265 (console.error only).
CheckForUserGetUserInfo ==
    /\ pc["restore"] \in GuiPcs
    /\ \E r \in GuiResponses(pc["restore"]) :
        /\ answer' = [at |-> pc["restore"], r |-> r]
        /\ LET s == GuiStep(pc["restore"], user["restore"],
                         registeredUser["restore"], r) IN
            IF s.err # NoError
            THEN /\ Returns("restore")
                 /\ Observe({"console.error"}, s.err, "none", "none", "none")
                 /\ UNCHANGED currentUser
            ELSE IF s.next = "return"
            THEN /\ currentUser' = s.session
                 /\ Returns("restore")
                 /\ Observe({"setCurrentUser"}, NoError, "none", "none", "none")
            ELSE /\ pc' = [pc EXCEPT !["restore"] = s.next]
                 /\ registeredUser' = [registeredUser EXCEPT !["restore"] = s.reg]
                 /\ Observe({"fetch"}, NoError, "none", "none", "none")
                 /\ UNCHANGED <<currentUser, user>>
    /\ UNCHANGED <<providerVars, sdkVars, sdkLogout, loginLocals, dialogVars>>

Next ==
    \/ InitializeEventListeners
    \/ AccountChanged
    \/ ModalLinkAddress
    \/ LinkResolved
    \/ ModalLogout
    \/ SdkLogoutClears
    \/ SdkLogoutDone
    \/ LogUserOut
    \/ HandleLogin
    \/ AuthCancelled
    \/ AuthRaised
    \/ AuthSucceeded
    \/ ConnectWalletCurrent
    \/ ConnectWalletFindUser
    \/ ConnectWalletSaved
    \/ LoginGetUserInfo
    \/ CheckForUser
    \/ CheckForUserCurrent
    \/ CheckForUserGetUserInfo

Spec == Init /\ [][Next]_vars

\* A step of a running handleLogin: one of its awaited calls returns or
\* raises.
LoginStep ==
    \/ AuthCancelled
    \/ AuthRaised
    \/ AuthSucceeded
    \/ ConnectWalletCurrent
    \/ ConnectWalletFindUser
    \/ ConnectWalletSaved
    \/ LoginGetUserInfo

\* The same program with the history variable recorded, on a page where
\* Login is the only consumer that calls logUserOut.
InitRecorded == InitProgram /\ endedBy = "none"

NextRecorded ==
    \/ InitializeEventListeners
    \/ AccountChanged
    \/ ModalLinkAddress
    \/ LinkResolved
    \/ ModalLogout
    \/ SdkLogoutClears
    \/ SdkLogoutDone
    \/ HandleLogin
    \/ AuthCancelled
    \/ AuthRaised
    \/ AuthSucceeded
    \/ ConnectWalletCurrent
    \/ ConnectWalletFindUser
    \/ ConnectWalletSaved
    \/ LoginGetUserInfo
    \/ CheckForUser
    \/ CheckForUserCurrent
    \/ CheckForUserGetUserInfo

SpecRecorded == InitRecorded /\ [][NextRecorded]_vars

(***************************************************************************)
(* The listener effect run more than once in a page lifetime (the provider  *)
(* mounted again, or React's development double run of mount effects).      *)
(***************************************************************************)
\* accountChangeListenerInitialized as line 79 reads it: the effect has the
\* dependency list [] (line 139), so its closure is the one of the mount
\* render, where useState(false) (lines 59-62) gave false.
EffectSeesInitialized == FALSE

\* The effect of lines 78-139 running again: the guard of line 79, then
\* lines 137-138.  The effect returns no cleanup, so the handler installed
\* by an earlier run stays subscribed.
ListenerEffectRunsAgain ==
    /\ answer' = NoAnswer
    /\ accountChangeListenerInitialized
    /\ listeners < MaxEffectRuns
    /\ ~EffectSeesInitialized
    /\ listeners' = listeners + 1
    /\ accountChangeListenerInitialized' = TRUE
    /\ Observe({"onAccountChanged"}, NoError, "none", "none", "none")
    /\ UNCHANGED <<currentUser, sdkVars, sdkLogout, pc, procLocals, loginLocals,
                   dialogVars>>

\* The provider on a page without the Login component.
NextEffects ==
    \/ InitializeEventListeners
    \/ ListenerEffectRunsAgain
    \/ AccountChanged
    \/ ModalLinkAddress
    \/ LinkResolved
    \/ ModalLogout
    \/ SdkLogoutClears
    \/ SdkLogoutDone
    \/ LogUserOut
    \/ CheckForUser
    \/ CheckForUserCurrent
    \/ CheckForUserGetUserInfo

SpecEffects == Init /\ [][NextEffects]_vars


(***************************************************************************)
(* Properties.                                                             *)
(***************************************************************************)
Authenticated(session) == session.moralisId # "" /\ session.username # ""

\* C1: in every reachable state Session.isLoggedIn is true exactly when
\* moralisId and username are both non-empty, and no Session has a username
\* without a moralisId.
C1_LoggedInIffIdentified ==
    /\ currentUser.isLoggedIn <=> Authenticated(currentUser)
    /\ ~(currentUser.username # "" /\ currentUser.moralisId = "")

\* C1 witness: a Session set by a successful getUserInfo.
C1_Witness ==
    /\ currentUser.isLoggedIn
    /\ currentUser.username \in Handles
    /\ currentUser.moralisId = "m1"
    /\ "setCurrentUser" \in invoked

\* C2: whatever the Session was, a step that runs logUserOut leaves it the
\* empty sentinel and has the wallet SDK logging out.
C2_LogUserOutClears ==
    [][("logUserOut" \in invoked')
        => (currentUser' = DEFAULT_STATE /\ sdkLogout' # "idle")]_vars

\* C2 witness: logUserOut has just run, outside a login attempt, while the SDK
\* still holds an authenticated identity.
C2_Witness ==
    /\ "logUserOut" \in invoked
    /\ attempt = "none"
    /\ currentUser = DEFAULT_STATE
    /\ sdkUser.present
    /\ isAuthenticated
    /\ sdkLogout = "requested"

\* C3: a login attempt that ends because authenticate raised or because
\* connectWallet threw (RegistrationPending, ConnectionPending, Unknown, or
\* any other rejection) ends with the empty Session and the SDK logout invoked.
C3_FailureForcesLogout ==
    attempt \in {"authRaised", "failed"}
        => /\ currentUser = DEFAULT_STATE
           /\ "logout" \in invoked
           /\ sdkLogout # "idle"

\* C3 witness: an attempt has just failed with ConnectionPending.
C3_Witness ==
    /\ attempt = "failed"
    /\ thrown = ConnectionPending
    /\ currentUser = DEFAULT_STATE
    /\ sdkLogout = "requested"

\* C4, as claimed: when the restore effect finds an identity whose profile has
\* no moralisId, the user is logged out and the Session is the empty sentinel.
C4_RestoreLogsOutUnresolved ==
    ("console.error" \in invoked /\ thrown = ConnectionPending)
        => (currentUser = DEFAULT_STATE /\ sdkLogout # "idle")

\* C5, as claimed: no step of a connectWallet call that read a
\* handlesPendingConfirmation marker changes the Session, and the step that
\* reads the marker navigates to confirm-account.
C5_PendingLeavesSession ==
    [][(pc["login"] \notin {"idle", "auth"} /\ pc'["login"] # pc["login"]
        /\ (cwPending \/ cwPending'))
        => /\ currentUser' = currentUser
           /\ (pc["login"] = "cw_current" => navigated' = "confirm-account")]_vars

\* The notification the claimed priority order gives an ended attempt.
ClaimedToast(ended, err) ==
    IF ended = "connected" THEN "loggedIn"
    ELSE IF ended = "notConnected" THEN "registerAsWarden"
    ELSE IF err = RegistrationPending THEN "registrationPending"
    ELSE IF err = ConnectionPending THEN "pendingReview"
    ELSE "generic"

\* C6, as claimed: an attempt whose authentication succeeded ends showing the
\* one notification of the priority order; with ConnectionPending that is the
\* 'pending review' message.
C6_OneNotificationByPriority ==
    attempt \in {"connected", "notConnected", "failed"}
        => loginToast = ClaimedToast(attempt, thrown)

NotFound(a) ==
    a.at = "gui_profile" /\ ~a.r.raises /\ ~a.r.ok /\ a.r.error = "User not found"

NoMoralisId(a) ==
    a.at = "gui_profile" /\ ~a.r.raises /\ a.r.ok /\ ~a.r.isNull
        /\ a.r.body.moralisId = ""

\* C7: a getUserInfo call resumed with 404 'User not found' throws
\* RegistrationPending, and the step leaves the Session as it was or at the
\* empty sentinel: an empty Session remains empty.
C7_NotFoundIsRegistrationPending ==
    [][NotFound(answer')
        => /\ thrown' = RegistrationPending
           /\ currentUser' \in {currentUser, DEFAULT_STATE}]_vars

\* C7 witness: the call was handleLogin's, answered 404, the Session is empty.
C7_Witness ==
    /\ NotFound(answer)
    /\ thrown = RegistrationPending
    /\ attempt = "failed"
    /\ currentUser = DEFAULT_STATE

\* C8: a getUserInfo call resumed with a record that has no moralisId throws
\* ConnectionPending, and the step leaves the Session as it was or at the
\* empty sentinel: an empty Session remains empty.
C8_NoIdIsConnectionPending ==
    [][NoMoralisId(answer')
        => /\ thrown' = ConnectionPending
           /\ currentUser' \in {currentUser, DEFAULT_STATE}]_vars

\* C8 witness: the call was the restore effect's, answered with a record
\* without moralisId, and the Session is empty.
C8_Witness ==
    /\ NoMoralisId(answer)
    /\ thrown = ConnectionPending
    /\ "console.error" \in invoked
    /\ currentUser = DEFAULT_STATE

\* C9: when authenticate gives undefined the attempt shows 'must sign the
\* message' and stops: connectWallet is not called, no logout is invoked and
\* the Session is what it was.
C9_CancelLeavesSession ==
    [][(attempt' = "cancelled")
        => /\ loginToast' = "mustSign"
           /\ pc'["login"] = "idle"
           /\ invoked' \cap {"connectWallet", "logUserOut", "logout"} = {}
           /\ sdkLogout' = sdkLogout
           /\ currentUser' = currentUser]_vars

\* C9 witness: a cancelled attempt with an authenticated Session left in place.
C9_Witness ==
    /\ attempt = "cancelled"
    /\ loginToast = "mustSign"
    /\ currentUser.isLoggedIn

\* C10: the account-change handler, run while the SDK holds no identity,
\* raises the 'wallet has been disconnected' toast, invokes logout and does
\* not open the link-address prompt.
C10_DisconnectedWithoutIdentity ==
    [][("accountChanged" \in invoked' /\ ~sdkUser.present)
        => /\ toasted' = "disconnected"
           /\ "logout" \in invoked'
           /\ sdkLogout' # "idle"
           /\ modal' = modal]_vars

\* C10 witness: the handler has just run without an identity.
C10_Witness ==
    /\ "accountChanged" \in invoked
    /\ ~sdkUser.present
    /\ toasted = "disconnected"
    /\ ~modal.open

\* C11: a link is requested only by confirming the open PendingLinkRequest
\* prompt, for the account and handle the prompt shows; the account-change
\* handler itself never links; declining the prompt invokes logout and
\* requests no link.
C11_LinkOnlyAfterConfirmation ==
    [][/\ ("link" \in invoked' \/ (linking'.active /\ ~linking.active))
           => /\ modal.open
              /\ "primaryButton" \in invoked'
              /\ "link" \in invoked'
              /\ linking' = [active |-> TRUE, account |-> modal.account,
                             username |-> modal.username]
       /\ "primaryButton" \in invoked' => "link" \in invoked'
       /\ "accountChanged" \in invoked'
           => "link" \notin invoked' /\ linking' = linking
       /\ "secondaryButton" \in invoked'
           => /\ "logout" \in invoked'
              /\ sdkLogout' # "idle"
              /\ "link" \notin invoked'
              /\ linking' = linking]_vars

\* C11 witness: the prompt has just been confirmed and the link is pending.
C11_Witness ==
    /\ "primaryButton" \in invoked
    /\ "link" \in invoked
    /\ linking.active
    /\ linking.account \in Accounts
    /\ ~modal.open

\* C12: however often the listener effect runs, at most one account-change
\* handler is installed.
C12_ListenerInstalledOnce == listeners <= 1

\* The steps of connectWallet for an identity without a handle: the answer
\* of findUser and the answer of user.save().
NoHandleStep(a) == a.at \in {"cw_findUser", "cw_save"}

C14_TeamsFailureIsNotFatal ==
    [][(/\ answer'.at = "gui_teams"
        /\ ~answer'.r.raises
        /\ answer'.r.status # 200)
        => /\ thrown' = NoError
           /\ "setCurrentUser" \in invoked'
           /\ currentUser'.teams = <<>>
           /\ currentUser'.isLoggedIn
           /\ Authenticated(currentUser')]_vars

\* C14 witness: getUserInfo has just returned after a 500 of the team
\* endpoint.
C14_Witness ==
    /\ answer.at = "gui_teams"
    /\ ~answer.r.raises
    /\ answer.r.status = 500
    /\ thrown = NoError
    /\ currentUser.isLoggedIn
    /\ currentUser.teams = <<>>

\* C15: when authenticate() raises, the same step forces a logout (the
\* Session is the empty sentinel and the SDK is logging out), shows the
\* generic failure notification and ends the attempt: connectWallet is not
\* called.
C15_AuthFailureForcesLogout ==
    [][attempt' = "authRaised"
        => /\ pc["login"] = "auth"
           /\ {"logUserOut", "logout"} \subseteq invoked'
           /\ currentUser' = DEFAULT_STATE
           /\ sdkLogout' # "idle"
           /\ loginToast' = "generic"
           /\ "connectWallet" \notin invoked'
           /\ pc'["login"] = "idle"]_vars

\* C15 witness: authenticate has just raised while the SDK held an identity.
C15_Witness ==
    /\ attempt = "authRaised"
    /\ sdkUser.present
    /\ sdkLogout = "requested"
    /\ loginToast = "generic"
    /\ currentUser = DEFAULT_STATE

\* The process whose getUserInfo has just been resumed at `at`.
Resumed(at) == CHOOSE p \in Procs : pc[p] = at /\ pc'[p] # pc[p]

\* The avatar URL of the stored path "./x.png".
ResolvedAvatar ==
    <<"https://raw.githubusercontent.com/code-423n4/code423n4.com/main/_data/handles/",
      "x.png">>

\* C16: the avatar probe replaces the stored path by the resolved URL when it
\* succeeds and keeps the path otherwise; the step that completes getUserInfo
\* sets a Session made of the identity's handle and attributes, the record's
\* moralisId, its link or null, its avatar (null when absent), the list of
\* the team endpoint and isLoggedIn = true, whatever the Session was before.
C16_SessionReplacedWholesale ==
    [][/\ (answer'.at = "gui_image" /\ answer'.r # "raises")
           => LET p == Resumed("gui_image") IN
              /\ registeredUser[p].image = StoredImage
              /\ registeredUser'[p].image =
                     IF answer'.r = "ok" THEN ResolvedAvatar ELSE StoredImage
       /\ (answer'.at = "gui_teams" /\ ~answer'.r.raises)
           => LET p == Resumed("gui_teams") IN
              /\ user[p].c4Username \in Handles
              /\ registeredUser[p].moralisId # ""
              /\ currentUser' =
                    [username |-> user[p].c4Username,
                     moralisId |-> registeredUser[p].moralisId,
                     address |-> user[p].ethAddress,
                     discordUsername |-> user[p].discordUsername,
                     gitHubUsername |-> user[p].gitHubUsername,
                     emailAddress |-> user[p].emailAddress,
                     link |-> IF registeredUser[p].link = "" THEN NullLink
                              ELSE registeredUser[p].link,
                     img |-> IF registeredUser[p].image = NoImage THEN NullImg
                             ELSE registeredUser[p].image,
                     teams |-> IF answer'.r.status = 200 THEN answer'.r.body
                               ELSE <<>>,
                     isLoggedIn |-> TRUE]
              /\ currentUser'.img \in {NullImg, StoredImage, ResolvedAvatar}]_vars

\* C16 witness: handle "alice", record {moralisId: "m1", image: "./x.png"},
\* a successful probe and the team list [{username: "bob"}].
C16_Witness ==
    /\ answer.at = "gui_teams"
    /\ currentUser.username = "alice"
    /\ currentUser.moralisId = "m1"
    /\ currentUser.img = ResolvedAvatar
    /\ currentUser.teams = <<[username |-> "bob"]>>
    /\ currentUser.isLoggedIn

\* C17: a login attempt shows the 'Logged in' notification only when the
\* Session is authenticated as connectWallet returns.
C17_LoggedInToastMeansAuthenticated ==
    (attempt = "connected" /\ loginToast = "loggedIn") => currentUser.isLoggedIn

\* C18: when logUserOut has run while a getUserInfo call of handleLogin or
\* of checkForUser was awaiting an answer, the step that resumes that call
\* next does not set an authenticated Session.
C18_LogoutDiscardsResolution ==
    [][\A p \in Procs :
        ("logUserOut" \in invoked /\ pc[p] \in GuiPcs /\ pc'[p] # pc[p])
            => ~currentUser'.isLoggedIn]_vars

\* Nothing is in flight: no handleLogin or checkForUser run, no SDK logout
\* in progress, no effect due, no prompt open and no link pending.  Only a
\* new event from the user or the wallet can change such a state.
Settled ==
    /\ \A p \in Procs : pc[p] = "idle"
    /\ sdkLogout = "idle"
    /\ ~effectPending
    /\ ~modal.open
    /\ ~linking.active

\* C19: once a direct SDK logout (one not made by logUserOut) has ended the
\* SDK session and everything it set off has run, the Session is the empty
\* sentinel: it does not stay authenticated while the SDK session is not.
C19_DirectLogoutEmptiesSession ==
    (endedBy = "direct" /\ Settled /\ ~isAuthenticated /\ ~sdkUser.present)
        => currentUser = DEFAULT_STATE

\* How many awaits a handleLogin at this position can still reach.
Awaits(at) ==
    CASE at = "idle" -> 0
      [] at = "gui_teams" -> 1
      [] at = "gui_image" -> 2
      [] at = "gui_profile" -> 3
      [] at = "cw_save" -> 1
      [] at = "cw_findUser" -> 2
      [] at = "cw_current" -> 4
      [] at = "auth" -> 5

\* C20: a login attempt none of whose calls hangs terminates with the
\* 'Logging in...' toast replaced: the toast shows 'Logging in...' exactly
\* while handleLogin runs; a running handleLogin always has a step to take
\* (the return or the raise of the call it awaits); and every step it takes
\* leaves it with fewer awaits to go.
C20_LoginTerminates ==
    /\ [](loginToast = "loading" <=> pc["login"] # "idle")
    /\ [](pc["login"] # "idle" => ENABLED LoginStep)
    /\ [][pc["login"] # "idle" /\ pc'["login"] # pc["login"]
            => Awaits(pc'["login"]) < Awaits(pc["login"])]_vars

\* C20 witness: a login attempt has just ended in its catch and the toast
\* shows an error.
C20_Witness ==
    /\ attempt = "failed"
    /\ thrown = Unknown
    /\ pc["login"] = "idle"
    /\ loginToast = "generic"

====
